---------------------------- MODULE Spec2Model ----------------------------
(***************************************************************************)
(* A model of the BitArray primitive: a fixed-length sequence of bits      *)
(* packed eight per byte.  Two revisions of the implementation are         *)
(* modelled: the current one (src/unnamed/part_000) and the older one      *)
(* (src/src/BitArray.c).  The two differ in bitarray_all and in            *)
(* bitarray_fill; every other function has the same body in both files.    *)
(*                                                                         *)
(* size_t is modelled as an unsigned integer of SizeBits bits; uint8_t is  *)
(* an integer in 0..255 and the bitwise operators are computed bit by bit. *)
(***************************************************************************)
EXTENDS Integers, FiniteSets, Sequences, TLC

\* ------------------------------------------------------------------ bounds

\* Lengths explored with every index as an argument of set/unset/flip.
MaxLen == 9

\* Width of size_t in the model (the arithmetic is modulo 2^SizeBits).
SizeBits == 5

\* Under SpecCap the length ranges over the whole size_t range and the
\* single-bit mutators are called with indices below MaxCapIdx only.
MaxCapIdx == 2

\* Under SpecAssert: the largest length and the largest index.
MaxAssertLen == 8

\* --------------------------------------------------------- machine integers

SIZE_MAX == 2^SizeBits - 1

\* Conversion of a mathematical integer to size_t / uint8_t.
SizeT(x) == x % (SIZE_MAX + 1)

U8(x) == x % 256

\* Bit k (0 = least significant) of the two's complement integer x.
BitOf(x, k) == (x \div 2^k) % 2

\* Integer promotion makes the operands of |, &, ^ and ~ ints; the results
\* below are the low eight bits, which is what the store to uint8_t keeps.
ByteOr(a, b) ==
    LET f(k) == IF BitOf(a, k) = 1 \/ BitOf(b, k) = 1 THEN 1 ELSE 0
    IN  f(0) + 2*f(1) + 4*f(2) + 8*f(3) + 16*f(4) + 32*f(5) + 64*f(6) + 128*f(7)

ByteAnd(a, b) ==
    LET f(k) == IF BitOf(a, k) = 1 /\ BitOf(b, k) = 1 THEN 1 ELSE 0
    IN  f(0) + 2*f(1) + 4*f(2) + 8*f(3) + 16*f(4) + 32*f(5) + 64*f(6) + 128*f(7)

ByteXor(a, b) ==
    LET f(k) == IF BitOf(a, k) # BitOf(b, k) THEN 1 ELSE 0
    IN  f(0) + 2*f(1) + 4*f(2) + 8*f(3) + 16*f(4) + 32*f(5) + 64*f(6) + 128*f(7)

\* ~x on an int.
IntNot(x) == -x - 1

\* memset(d, v, n) on the byte buffer d.
memset(d, v, n) == [i \in DOMAIN d |-> IF i < n THEN v ELSE d[i]]

\* ------------------------------------------------------------ static helpers

\* UINT8_C(1) << bit_idx, returned as uint8_t.
byte_set_at(bit_idx) == U8(2^bit_idx)

\* 1 + (length_in_bits - 1) / 8 in size_t arithmetic.
bitarray_capacity_in_bytes(b) ==
    SizeT(1 + SizeT(b.length_in_bits - 1) \div 8)

\* Index one past the last byte of the buffer.
bitarray_end(b) == bitarray_capacity_in_bytes(b)

\* Index of the last byte of the buffer.
bitarray_last(b) == SizeT(b.length_in_bits - 1) \div 8

bitarray_last_mut(b) == SizeT(b.length_in_bits - 1) \div 8

u8_popcount_table ==
  <<0, 1, 1, 2, 1, 2, 2, 3, 1, 2, 2, 3, 2, 3, 3, 4,
    1, 2, 2, 3, 2, 3, 3, 4, 2, 3, 3, 4, 3, 4, 4, 5,
    1, 2, 2, 3, 2, 3, 3, 4, 2, 3, 3, 4, 3, 4, 4, 5,
    2, 3, 3, 4, 3, 4, 4, 5, 3, 4, 4, 5, 4, 5, 5, 6,
    1, 2, 2, 3, 2, 3, 3, 4, 2, 3, 3, 4, 3, 4, 4, 5,
    2, 3, 3, 4, 3, 4, 4, 5, 3, 4, 4, 5, 4, 5, 5, 6,
    2, 3, 3, 4, 3, 4, 4, 5, 3, 4, 4, 5, 4, 5, 5, 6,
    3, 4, 4, 5, 4, 5, 5, 6, 4, 5, 5, 6, 5, 6, 6, 7,
    1, 2, 2, 3, 2, 3, 3, 4, 2, 3, 3, 4, 3, 4, 4, 5,
    2, 3, 3, 4, 3, 4, 4, 5, 3, 4, 4, 5, 4, 5, 5, 6,
    2, 3, 3, 4, 3, 4, 4, 5, 3, 4, 4, 5, 4, 5, 5, 6,
    3, 4, 4, 5, 4, 5, 5, 6, 4, 5, 5, 6, 5, 6, 6, 7,
    2, 3, 3, 4, 3, 4, 4, 5, 3, 4, 4, 5, 4, 5, 5, 6,
    3, 4, 4, 5, 4, 5, 5, 6, 4, 5, 5, 6, 5, 6, 6, 7,
    3, 4, 4, 5, 4, 5, 5, 6, 4, 5, 5, 6, 5, 6, 6, 7,
    4, 5, 5, 6, 5, 6, 6, 7, 5, 6, 6, 7, 6, 7, 7, 8>>

\* Mutant of byte_popcount: the last entry of the table mistyped as 7.
byte_popcount_typo(byte) == IF byte = 255 THEN 7 ELSE u8_popcount_table[byte + 1]

\* The table lookup; __builtin_popcount gives the same value on a byte.
byte_popcount(byte) == u8_popcount_table[byte + 1]

\* ------------------------------------------------------ construction, queries

\* calloc of 1 + (length - 1) / 8 zeroed bytes, then the length is stored.
bitarray_new(length) ==
    [length_in_bits |-> length,
     data |-> [i \in 0 .. (SizeT(1 + SizeT(length - 1) \div 8) - 1) |-> 0]]

bitarray_check(b, bit_idx) ==
    ByteAnd(b.data[bit_idx \div 8], byte_set_at(bit_idx % 8)) # 0

\* Current revision: every byte before the last must be 0xFF, then the
\* popcount of the last byte is compared with length_in_bits % 8.
bitarray_all(b) ==
    LET last == bitarray_last(b)
    IN  IF \E it \in 0 .. (last - 1) : b.data[it] # 255
        THEN FALSE
        ELSE (b.length_in_bits % 8) = byte_popcount(b.data[last])

\* Older revision: the last byte is compared whole when the length is a
\* multiple of 8 and bit by bit over its low length % 8 bits otherwise.
bitarray_all_old(b) ==
    LET last_elem_it == SizeT(b.length_in_bits - 1) \div 8
        loose_bits_count == b.length_in_bits % 8
    IN  IF \E it \in 0 .. (last_elem_it - 1) : b.data[it] # 255
        THEN FALSE
        ELSE IF loose_bits_count = 0
        THEN b.data[last_elem_it] = 255
        ELSE LET end_bit_idx == loose_bits_count - 1
             IN  \A bit_idx \in 0 .. end_bit_idx :
                    ByteAnd(b.data[last_elem_it], byte_set_at(bit_idx % 8)) # 0

bitarray_any(b) ==
    \E it \in 0 .. (bitarray_end(b) - 1) : b.data[it] # 0

bitarray_none(b) ==
    ~ \E it \in 0 .. (bitarray_end(b) - 1) : b.data[it] # 0

RECURSIVE popcount_loop(_, _, _)
\* The loop of bitarray_popcount from byte `it` up to `end`.
popcount_loop(b, it, total_popcount) ==
    IF it = bitarray_end(b)
    THEN total_popcount
    ELSE popcount_loop(b, it + 1, SizeT(total_popcount + byte_popcount(b.data[it])))

bitarray_popcount(b) == popcount_loop(b, 0, 0)

\* Older revision: the same loops over the raw bytes.
bitarray_any_old(b) ==
    \E it \in 0 .. (bitarray_end(b) - 1) : b.data[it] # 0

RECURSIVE popcount_loop_old(_, _, _)
popcount_loop_old(b, it, total_popcount) ==
    IF it = bitarray_end(b)
    THEN total_popcount
    ELSE popcount_loop_old(b, it + 1,
                           SizeT(total_popcount + byte_popcount(b.data[it])))

bitarray_popcount_old(b) == popcount_loop_old(b, 0, 0)

bitarray_length(b) == b.length_in_bits

bitarray_capacity(b) == SizeT(bitarray_capacity_in_bytes(b) * 8)

\* ------------------------------------------------------------------ mutators

\* Mutant of bitarray_set: the mask is added instead of or-ed.
bitarray_set_add(b, bit_idx) ==
    [b EXCEPT !.data[bit_idx \div 8] = U8(@ + byte_set_at(bit_idx % 8))]

bitarray_set(b, bit_idx) ==
    [b EXCEPT !.data[bit_idx \div 8] = ByteOr(@, byte_set_at(bit_idx % 8))]

\* Mutant of bitarray_unset: the complement of the mask is forgotten.
bitarray_unset_no_complement(b, bit_idx) ==
    [b EXCEPT !.data[bit_idx \div 8] = ByteAnd(@, byte_set_at(bit_idx % 8))]

bitarray_unset(b, bit_idx) ==
    [b EXCEPT !.data[bit_idx \div 8] =
                  ByteAnd(@, U8(IntNot(byte_set_at(bit_idx % 8))))]

bitarray_flip(b, bit_idx) ==
    [b EXCEPT !.data[bit_idx \div 8] = ByteXor(@, byte_set_at(bit_idx % 8))]

\* Mutant of bitarray_fill: the last byte is not masked.
bitarray_fill_unmasked(b) ==
    [b EXCEPT !.data = [i \in DOMAIN b.data |-> 255]]

\* Mutant of bitarray_fill: the mask of the last byte is one bit too wide.
bitarray_fill_off_by_one(b) ==
    LET filled == memset(b.data, 255, SizeT(b.length_in_bits - 1) \div 8)
        remaining_bits == b.length_in_bits % 8
    IN  [b EXCEPT !.data =
            [filled EXCEPT ![SizeT(b.length_in_bits - 1) \div 8] =
                IF remaining_bits # 0
                THEN U8(byte_set_at(remaining_bits + 1) - 1)
                ELSE 255]]

\* Mutant of bitarray_fill: no special case for a length that is a multiple
\* of 8, so the last byte is then byte_set_at(0) - 1.
bitarray_fill_no_else(b) ==
    LET filled == memset(b.data, 255, SizeT(b.length_in_bits - 1) \div 8)
        remaining_bits == b.length_in_bits % 8
    IN  [b EXCEPT !.data =
            [filled EXCEPT ![SizeT(b.length_in_bits - 1) \div 8] =
                U8(byte_set_at(remaining_bits) - 1)]]

\* Current revision: the bytes before the last are set to 0xFF and the
\* last byte gets only its low length % 8 bits (all eight when that is 0).
bitarray_fill(b) ==
    LET filled == memset(b.data, 255, SizeT(b.length_in_bits - 1) \div 8)
        last == bitarray_last_mut(b)
        remaining_bits == b.length_in_bits % 8
    IN  [b EXCEPT !.data =
            [filled EXCEPT ![last] =
                IF remaining_bits # 0
                THEN U8(byte_set_at(remaining_bits) - 1)
                ELSE 255]]

\* Older revision: every byte of the buffer is set to 0xFF.
bitarray_fill_old(b) ==
    [b EXCEPT !.data = memset(b.data, 255, bitarray_capacity_in_bytes(b))]

bitarray_clear(b) ==
    [b EXCEPT !.data = memset(b.data, 0, bitarray_capacity_in_bytes(b))]

\* -------------------------------------------------------------------- state

VARIABLES
    ba,     \* the struct BitArray: length_in_bits and the data bytes
    call,   \* the last call made on ba: its name and its bit_idx argument
    pair,   \* tracks a bitarray_set(i) directly followed by bitarray_unset(i)
    pc,     \* "start" before bitarray_new, "run" with an array, "aborted"
            \* once an assertion has failed
    calloc_calls,   \* how many times calloc has been called
    touched \* the byte of data the last check/set/unset/flip read or wrote,
            \* -1 when it touched none

vars == <<ba, call, pair, pc, calloc_calls, touched>>

NoPair == [stage |-> 0, bit_idx |-> 0, before |-> <<>>]

\* Position of the call sequence set(i); unset(i): stage 1 after the set,
\* stage 2 after the matching unset; `before` is the storage before the set.
PairAfter(op, bit_idx) ==
    IF op = "set"
    THEN [stage |-> 1, bit_idx |-> bit_idx, before |-> ba.data]
    ELSE IF op = "unset" /\ pair.stage = 1 /\ pair.bit_idx = bit_idx
    THEN [pair EXCEPT !.stage = 2]
    ELSE NoPair

\* A call whose preconditions hold: no assertion fails and nothing is
\* allocated.  The storage accesses are followed under SpecAssert only.
Called(op, bit_idx) ==
    /\ call' = [op |-> op, bit_idx |-> bit_idx]
    /\ pair' = PairAfter(op, bit_idx)
    /\ UNCHANGED <<pc, calloc_calls, touched>>

\* The state after a successful bitarray_new(length).
InitLen(lengths) ==
    /\ \E length \in lengths : ba = bitarray_new(length)
    /\ call = [op |-> "new", bit_idx |-> 0]
    /\ pair = NoPair
    /\ pc = "run"
    /\ calloc_calls = 1
    /\ touched = -1

Init == InitLen(1 .. MaxLen)

\* bit_idx < length_in_bits is the precondition of the single-bit mutators.
Set(bit_idx) ==
    /\ bit_idx < ba.length_in_bits
    /\ ba' = bitarray_set(ba, bit_idx)
    /\ Called("set", bit_idx)

Unset(bit_idx) ==
    /\ bit_idx < ba.length_in_bits
    /\ ba' = bitarray_unset(ba, bit_idx)
    /\ Called("unset", bit_idx)

Flip(bit_idx) ==
    /\ bit_idx < ba.length_in_bits
    /\ ba' = bitarray_flip(ba, bit_idx)
    /\ Called("flip", bit_idx)

Fill ==
    /\ ba' = bitarray_fill(ba)
    /\ Called("fill", 0)

FillOld ==
    /\ ba' = bitarray_fill_old(ba)
    /\ Called("fill", 0)

Clear ==
    /\ ba' = bitarray_clear(ba)
    /\ Called("clear", 0)

\* Current revision.
Next ==
    \/ \E bit_idx \in 0 .. (MaxLen - 1) : Set(bit_idx)
    \/ \E bit_idx \in 0 .. (MaxLen - 1) : Unset(bit_idx)
    \/ \E bit_idx \in 0 .. (MaxLen - 1) : Flip(bit_idx)
    \/ Fill
    \/ Clear

Spec == Init /\ [][Next]_vars

\* Older revision.
NextOld ==
    \/ \E bit_idx \in 0 .. (MaxLen - 1) : Set(bit_idx)
    \/ \E bit_idx \in 0 .. (MaxLen - 1) : Unset(bit_idx)
    \/ \E bit_idx \in 0 .. (MaxLen - 1) : Flip(bit_idx)
    \/ FillOld
    \/ Clear

SpecOld == Init /\ [][NextOld]_vars

\* Current revision, every length of the size_t range, few indices.
InitCap == InitLen(1 .. SIZE_MAX)

NextCap ==
    \/ \E bit_idx \in 0 .. (MaxCapIdx - 1) : Set(bit_idx)
    \/ \E bit_idx \in 0 .. (MaxCapIdx - 1) : Unset(bit_idx)
    \/ \E bit_idx \in 0 .. (MaxCapIdx - 1) : Flip(bit_idx)
    \/ Fill
    \/ Clear

SpecCap == InitCap /\ [][NextCap]_vars

\* ----------------------------------------- the build with BIT_ARRAY_ASSERTS

\* The pointer no bitarray_new has set yet, or that a failed calloc returned.
NULL == [length_in_bits |-> 0, data |-> <<>>]

\* assert(length) of bitarray_new.
assert_length(length) == length # 0

\* Mutant of assert_bit_idx: the comparison lets bit_idx = length through.
assert_bit_idx_off_by_one(b, bit_idx) == bit_idx <= b.length_in_bits

\* assert(bit_idx < ba->length_in_bits) of check, set, unset and flip.
assert_bit_idx(b, bit_idx) == bit_idx < b.length_in_bits

InitAssert ==
    /\ ba = NULL
    /\ call = [op |-> "none", bit_idx |-> 0]
    /\ pair = NoPair
    /\ pc = "start"
    /\ calloc_calls = 0
    /\ touched = -1

\* bitarray_new(length): assert(length), then calloc, then assert(ba); calloc
\* returns the zeroed block (calloc_ok) or NULL.  call.bit_idx records the
\* size_t argument of the call, here the length.
NewAssert(length, calloc_ok) ==
    /\ pc = "start"
    /\ call' = [op |-> "new", bit_idx |-> length]
    /\ UNCHANGED <<pair, touched>>
    /\ IF ~ assert_length(length)
       THEN /\ pc' = "aborted"
            /\ UNCHANGED <<ba, calloc_calls>>
       ELSE /\ calloc_calls' = calloc_calls + 1
            /\ IF calloc_ok
               THEN /\ ba' = bitarray_new(length)
                    /\ pc' = "run"
               ELSE /\ ba' = NULL
                    /\ pc' = "aborted"

\* The common shape of check, set, unset and flip: the assertion first, then
\* the access to data[bit_idx / 8] that makes the array `after`.
SingleBitAssert(op, bit_idx, after) ==
    /\ pc = "run"
    /\ call' = [op |-> op, bit_idx |-> bit_idx]
    /\ calloc_calls' = calloc_calls
    /\ IF assert_bit_idx(ba, bit_idx)
       THEN /\ ba' = after
            /\ touched' = bit_idx \div 8
            /\ pair' = PairAfter(op, bit_idx)
            /\ pc' = pc
       ELSE /\ pc' = "aborted"
            /\ touched' = -1
            /\ UNCHANGED <<ba, pair>>

CheckAssert(bit_idx) == SingleBitAssert("check", bit_idx, ba)

SetAssert(bit_idx) == SingleBitAssert("set", bit_idx, bitarray_set(ba, bit_idx))

UnsetAssert(bit_idx) ==
    SingleBitAssert("unset", bit_idx, bitarray_unset(ba, bit_idx))

FlipAssert(bit_idx) ==
    SingleBitAssert("flip", bit_idx, bitarray_flip(ba, bit_idx))

FillAssert == pc = "run" /\ Fill

ClearAssert == pc = "run" /\ Clear

\* Lengths 0 .. MaxAssertLen and indices 0 .. MaxAssertLen: every length has
\* indices at and beyond its end.
NextAssert ==
    \/ \E length \in 0 .. MaxAssertLen : \E calloc_ok \in BOOLEAN :
          NewAssert(length, calloc_ok)
    \/ \E bit_idx \in 0 .. MaxAssertLen : CheckAssert(bit_idx)
    \/ \E bit_idx \in 0 .. MaxAssertLen : SetAssert(bit_idx)
    \/ \E bit_idx \in 0 .. MaxAssertLen : UnsetAssert(bit_idx)
    \/ \E bit_idx \in 0 .. MaxAssertLen : FlipAssert(bit_idx)
    \/ FillAssert
    \/ ClearAssert

SpecAssert == InitAssert /\ [][NextAssert]_vars

\* ------------------------------------------------------------- properties

\* The logical bit positions and the ones that are set.
LogicalBits(b) == 0 .. (b.length_in_bits - 1)

SetBits(b) == {i \in LogicalBits(b) : bitarray_check(b, i)}

\* Every bit position the buffer physically holds, and the padding ones.
PhysicalBits(b) == 0 .. (8 * Cardinality(DOMAIN b.data) - 1)

PaddingBits(b) == PhysicalBits(b) \ LogicalBits(b)

\* Physical bit p of a buffer: bit p % 8 of byte p / 8, from the LSB.
PhysBit(d, p) == BitOf(d[p \div 8], p % 8)

\* C1: bitarray_all is true iff bitarray_check is true for every index of
\* [0, length), lengths that are a multiple of 8 included.
C1_AllIffEveryBit ==
    bitarray_all(ba) <=> (\A i \in LogicalBits(ba) : bitarray_check(ba, i))

\* C2: bitarray_popcount is the number of indices of [0, length) for which
\* bitarray_check is true; padding bits never count.
C2_PopcountCountsLogicalBits ==
    bitarray_popcount(ba) = Cardinality(SetBits(ba))

C2_Witness ==
    /\ call.op = "flip"
    /\ PaddingBits(ba) # {}
    /\ Cardinality(DOMAIN ba.data) > 1
    /\ bitarray_popcount(ba) = ba.length_in_bits

\* C3: in the older revision, after bitarray_fill, all and any are true and
\* popcount equals the length (1 for length 1).
C3_OldFillQueries ==
    call.op = "fill" =>
        /\ bitarray_all_old(ba)
        /\ bitarray_any_old(ba)
        /\ bitarray_popcount_old(ba) = bitarray_length(ba)

\* C4: bitarray_any is true iff some index of [0, length) is set, and
\* bitarray_none is true iff none is.
C4_AnyNone ==
    /\ bitarray_any(ba) <=> (SetBits(ba) # {})
    /\ bitarray_none(ba) <=> (SetBits(ba) = {})

C4_Witness ==
    /\ call.op = "unset"
    /\ PaddingBits(ba) # {}
    /\ bitarray_none(ba)
    /\ pair.stage = 0

\* C5: every physical bit at a position >= length is 0 in every reachable
\* state.
C5_PaddingUnset ==
    \A p \in PaddingBits(ba) : PhysBit(ba.data, p) = 0

C5_Witness ==
    /\ call.op = "flip"
    /\ call.bit_idx = ba.length_in_bits - 1
    /\ PaddingBits(ba) # {}
    /\ SetBits(ba) = LogicalBits(ba)

\* C6: after bitarray_fill every logical bit is set and every padding bit is
\* unset: the bytes before the last are 0xFF and the last byte holds the low
\* length % 8 bits, or 0xFF when the length is a multiple of 8.
C6_FillSetsLogicalBitsOnly ==
    call.op = "fill" =>
        LET last == (ba.length_in_bits - 1) \div 8
            r == ba.length_in_bits % 8
        IN  /\ \A i \in LogicalBits(ba) : bitarray_check(ba, i)
            /\ \A p \in PaddingBits(ba) : PhysBit(ba.data, p) = 0
            /\ \A k \in 0 .. (last - 1) : ba.data[k] = 255
            /\ ba.data[last] = IF r = 0 THEN 255 ELSE 2^r - 1

C6_Witness ==
    /\ call.op = "fill"
    /\ ba.length_in_bits % 8 # 0
    /\ Cardinality(DOMAIN ba.data) > 2

\* C7: right after bitarray_new and after bitarray_clear, none is true, any
\* is false, popcount is 0, all is false, no index is set and every byte of
\* the storage is 0.
C7_AllUnsetAfterNewAndClear ==
    call.op \in {"new", "clear"} =>
        /\ bitarray_none(ba)
        /\ ~ bitarray_any(ba)
        /\ bitarray_popcount(ba) = 0
        /\ ~ bitarray_all(ba)
        /\ \A i \in LogicalBits(ba) : ~ bitarray_check(ba, i)
        /\ \A k \in DOMAIN ba.data : ba.data[k] = 0

\* C8: for every length >= 1 of the size_t range, bitarray_capacity is
\* ceil(length / 8) * 8, a multiple of 8, and length <= capacity < length + 8.
C8_CapacityRoundsUp ==
    LET len == bitarray_length(ba)
        cap == bitarray_capacity(ba)
    IN  /\ cap = ((len + 7) \div 8) * 8
        /\ cap % 8 = 0
        /\ len <= cap
        /\ cap < len + 8

\* C9: set, unset and flip change exactly the addressed bit, bit
\* (bit_idx % 8) from the least significant bit of byte (bit_idx / 8): it
\* becomes 1, 0 and its negation respectively; every other physical bit and
\* length_in_bits stay as they were.
C9_Step ==
    call'.op \in {"set", "unset", "flip"} =>
        LET i == call'.bit_idx
        IN  /\ ba'.length_in_bits = ba.length_in_bits
            /\ DOMAIN ba'.data = DOMAIN ba.data
            /\ bitarray_check(ba', i) =
                  CASE call'.op = "set" -> TRUE
                    [] call'.op = "unset" -> FALSE
                    [] call'.op = "flip" -> ~ bitarray_check(ba, i)
            /\ bitarray_check(ba', i) = (BitOf(ba'.data[i \div 8], i % 8) = 1)
            \* every other physical bit: the other bits of the addressed
            \* byte, and every other byte whole
            /\ \A k \in 0 .. 7 :
                  k # i % 8 =>
                      BitOf(ba'.data[i \div 8], k) = BitOf(ba.data[i \div 8], k)
            /\ \A it \in DOMAIN ba.data :
                  it # i \div 8 => ba'.data[it] = ba.data[it]

C9_SingleBitMutators == [][C9_Step]_vars

C9_Witness ==
    /\ call.op = "flip"
    /\ call.bit_idx >= 8
    /\ ~ bitarray_check(ba, call.bit_idx)
    /\ bitarray_any(ba)

\* C10 as stated: after bitarray_set(i) directly followed by
\* bitarray_unset(i), bit i and the whole storage are what they were before
\* the two calls.
C10_SetUnsetRestores ==
    pair.stage = 2 =>
        /\ bitarray_check(ba, pair.bit_idx) =
               (PhysBit(pair.before, pair.bit_idx) = 1)
        /\ ba.data = pair.before

\* C10 as amended: after bitarray_set(i) directly followed by
\* bitarray_unset(i), bit i is unset and every other physical bit is what it
\* was before the two calls; so the storage is restored exactly when bit i
\* was unset before them.
C10_SetUnsetClearsBit ==
    pair.stage = 2 =>
        /\ ~ bitarray_check(ba, pair.bit_idx)
        /\ \A p \in PhysicalBits(ba) \ {pair.bit_idx} :
              PhysBit(ba.data, p) = PhysBit(pair.before, p)
        /\ (ba.data = pair.before) <=> (PhysBit(pair.before, pair.bit_idx) = 0)

C10_Witness ==
    /\ pair.stage = 2
    /\ ba.data = pair.before
    /\ bitarray_any(ba)

\* C11: with the assertions compiled in, bitarray_new(0) fails its assertion
\* before any allocation, and check/set/unset/flip with bit_idx >= length
\* fail theirs before the storage is read or written: the array is exactly
\* as before the call.
C11_Step ==
    /\ (pc = "start" /\ call'.op = "new" /\ call'.bit_idx = 0) =>
          /\ pc' = "aborted"
          /\ calloc_calls' = calloc_calls
          /\ ba' = ba
    /\ ( /\ pc = "run"
         /\ call'.op \in {"check", "set", "unset", "flip"}
         /\ call'.bit_idx >= ba.length_in_bits ) =>
          /\ pc' = "aborted"
          /\ touched' = -1
          /\ ba'.data = ba.data
          /\ ba'.length_in_bits = ba.length_in_bits

C11_AssertBeforeEffect == [][C11_Step]_vars

C11_Witness ==
    /\ pc = "aborted"
    /\ call.op = "flip"
    /\ call.bit_idx = ba.length_in_bits
    /\ ba.length_in_bits % 8 = 0
    /\ bitarray_any(ba)

=============================================================================
